---- MODULE Spec2Model ----
(***************************************************************************)
(* A model of the calculator REPL of calculator.cpp: the Lexer, the Pratt   *)
(* Parser, the tree-walking Evaluator with its variable Context, and the    *)
(* Repl loop around them.  Characters are one-character strings, a line is  *)
(* a sequence of characters, C++ indices stay 0-based as in the source.     *)
(***************************************************************************)
EXTENDS Integers, Sequences, FiniteSets, TLC

VARIABLES
  phase,   \* where Repl::loop stands: "prompt", "parsed", "printed", "crashed", "exited"
  line,    \* the line last read by getline
  stmt,    \* the Statement returned by parse_statment for that line
  ctx,     \* Evaluator::ctx, the Context (identifier -> int)
  out,     \* what the last iteration wrote to cout
  fault,   \* the undefined behaviour the last statement ran into, "none" if none
  parser,  \* the Parser object as parse_statment left it
  lexer,   \* a Lexer stepped on its own (token-by-token scenario)
  tok,     \* the Token its last next_token call returned
  ntok     \* how many times next_token was called on it

vars == <<phase, line, stmt, parser, ctx, out, fault, lexer, tok, ntok>>

(***************************************************************************)
(* Bounds of the model.                                                     *)
(***************************************************************************)
MaxLexLen == 4      \* longest line fed to the stand-alone lexer
MaxExtraCalls == 3  \* next_token calls made beyond the length of the line
MaxFuzzLen == 5     \* longest arbitrary line given to a fresh Repl
MaxOperands == 3    \* most operands of an arithmetic line given to a fresh Repl
MaxValue == 2       \* largest magnitude a session lets a variable or a result take

(***************************************************************************)
(* Characters.                                                              *)
(***************************************************************************)
\* the byte '\0', which read_char also yields past the end of the input
NUL == "\\0"
Digits == <<"0", "1", "2", "3", "4", "5", "6", "7", "8", "9">>
OperChars == {"+", "-", "*", "/", "%", "(", ")"}
\* the letters and the underscore that occur in the lines of the model
LetterChars == {"x", "y", "_", "A"}

RECURSIVE digit_value_from(_, _)
digit_value_from(ch, i) ==
  IF i > Len(Digits) THEN -1
  ELSE IF Digits[i] = ch THEN i - 1 ELSE digit_value_from(ch, i + 1)

\* ch - '0' for a digit character
digit_value(ch) == digit_value_from(ch, 1)

is_digit(ch) == \E i \in 1..Len(Digits) : Digits[i] = ch
is_letter(ch) == ch \in LetterChars

(***************************************************************************)
(* Token: a type tag and the one union member the constructor wrote.        *)
(***************************************************************************)
Token_eof == [type |-> "Eof"]
Token_oper(op) == [type |-> "Oper", op |-> op]
Token_number(num) == [type |-> "Num", num |-> num]
Token_identifier(ident) == [type |-> "Ident", ident |-> ident]
Token_assign == [type |-> "Assign"]
not_eof(t) == t.type # "Eof"

(***************************************************************************)
(* Lexer.                                                                   *)
(***************************************************************************)
read_char(l) ==
  [l EXCEPT !.ch = IF l.next >= Len(l.input) THEN NUL ELSE l.input[l.next + 1],
            !.cur = l.next,
            !.next = l.next + 1]

Lexer(input) == read_char([input |-> input, cur |-> 0, next |-> 0, ch |-> NUL])

RECURSIVE skipspace(_)
skipspace(l) == IF l.ch = " " THEN skipspace(read_char(l)) ELSE l

RECURSIVE read_number_loop(_, _)
read_number_loop(num, l) ==
  IF is_digit(l.ch)
  THEN read_number_loop(num * 10 + digit_value(l.ch), read_char(l))
  ELSE [num |-> num, lexer |-> l]

read_number(l) == read_number_loop(0, l)

RECURSIVE read_identifier_loop(_)
read_identifier_loop(l) ==
  IF is_letter(l.ch) THEN read_identifier_loop(read_char(l)) ELSE l

read_identifier(l) ==
  LET start == l.cur
      l2 == read_identifier_loop(l)
  IN  [ident |-> SubSeq(l.input, start + 1, l2.cur), lexer |-> l2]

number_token(r) == [tok |-> Token_number(r.num), lexer |-> r.lexer]
identifier_token(r) == [tok |-> Token_identifier(r.ident), lexer |-> r.lexer]

\* the switch of next_token, entered after skipspace
next_token_switch(l) ==
  IF l.ch \in OperChars THEN [tok |-> Token_oper(l.ch), lexer |-> read_char(l)]
  ELSE IF l.ch = "=" THEN [tok |-> Token_assign, lexer |-> read_char(l)]
  ELSE IF l.ch = NUL THEN [tok |-> Token_eof, lexer |-> l]
  ELSE IF is_digit(l.ch) THEN number_token(read_number(l))
  ELSE IF is_letter(l.ch) THEN identifier_token(read_identifier(l))
  ELSE [tok |-> Token_eof, lexer |-> l]

\* next_token stepping over a character it does not recognize
next_token_switch_skipping(l) ==
  IF l.ch \in OperChars THEN [tok |-> Token_oper(l.ch), lexer |-> read_char(l)]
  ELSE IF l.ch = "=" THEN [tok |-> Token_assign, lexer |-> read_char(l)]
  ELSE IF l.ch = NUL THEN [tok |-> Token_eof, lexer |-> l]
  ELSE IF is_digit(l.ch) THEN number_token(read_number(l))
  ELSE IF is_letter(l.ch) THEN identifier_token(read_identifier(l))
  ELSE [tok |-> Token_eof, lexer |-> read_char(l)]

next_token_skipping(l0) == next_token_switch_skipping(skipspace(l0))

next_token(l0) == next_token_switch(skipspace(l0))

(***************************************************************************)
(* AstNode and Statement.  nullptr is the null Expression.                  *)
(***************************************************************************)
nullptr == [type |-> "nullptr"]
AstNode_integer(num) == [type |-> "Literal", num |-> num]
AstNode_identifier(ident) == [type |-> "Identifier", ident |-> ident]
AstNode_negative(child) == [type |-> "NegativeExpression", child |-> child]
AstNode_expression(op, left, right) ==
  [type |-> "BinaryExpression", op |-> op, left |-> left, right |-> right]

Statement_expression(expr) == [type |-> "Expression", expr |-> expr]
Statement_assignment(ident, value) == [type |-> "Assignment", lhs |-> ident, rhs |-> value]

(***************************************************************************)
(* Parser.  A parser value holds the lexer and the two buffered tokens;     *)
(* its trace field logs, in order, every read_token call (with the type of  *)
(* the token it moved past and the lexer position before and after) and     *)
(* every parse_expression call (with the number of read_token calls made    *)
(* before it).                                                              *)
(***************************************************************************)
LOWEST == 0
ADD_SUB == 1
PROD_DIV_MOD == 2
PREFIX == 3

precedence(t) ==
  IF t.type = "Oper"
  THEN IF t.op \in {"+", "-"} THEN ADD_SUB
       ELSE IF t.op \in {"*", "/", "%"} THEN PROD_DIV_MOD
       ELSE LOWEST
  ELSE LOWEST

cur_precedence(p) == precedence(p.cur)
next_precedence(p) == precedence(p.next)

Parser_fields(t1, t2) ==
  [lexer |-> t2.lexer, cur |-> t1.tok, next |-> t2.tok, reads |-> 0, trace |-> <<>>]
Parser_second(t1) == Parser_fields(t1, next_token(t1.lexer))

\* cur = lexer.next_token(); next = lexer.next_token();
Parser(input) == Parser_second(next_token(Lexer(input)))

\* read_token, given the token t the lexer returns
read_token_with(p, t) ==
  [p EXCEPT !.cur = p.next,
            !.next = t.tok,
            !.lexer = t.lexer,
            !.reads = @ + 1,
            !.trace = Append(@, [ev |-> "read_token", past |-> p.cur.type,
                                 from |-> p.lexer.next, to |-> t.lexer.next])]

read_token(p) == read_token_with(p, next_token(p.lexer))

parse_integer_literal(p) == AstNode_integer(p.cur.num)
parse_identifier(p) == AstNode_identifier(p.cur.ident)

\* A parsing function returns the Expression and the parser as it left it.
\* The part of a function that follows a call is an operator of its own,
\* applied to what the call returned.
Parsed(expr, p) == [expr |-> expr, p |-> p]

RECURSIVE parse_expression(_, _)
RECURSIVE parse_expression_switch(_, _)
RECURSIVE parse_expression_loop(_, _, _)
RECURSIVE parse_expression_loop_body(_, _, _)
RECURSIVE parse_expression_loop_again(_, _)
RECURSIVE parse_prefix_expression(_)
RECURSIVE parse_grouped_expression(_)
RECURSIVE parse_infix_expression(_, _)

\* parse_prefix_expression after its parse_expression(PREFIX) returned r
prefix_return(op, r) ==
  IF op = "+" THEN r ELSE Parsed(AstNode_negative(r.expr), r.p)

parse_prefix_expression(p) ==
  IF p.cur.op \in {"+", "-"}
  THEN prefix_return(p.cur.op, parse_expression(PREFIX, read_token(p)))
  ELSE Parsed(nullptr, read_token(p))

\* parse_grouped_expression after its parse_expression(LOWEST) returned r
grouped_return(r) ==
  IF r.p.next.type # "Oper" \/ r.p.next.op # ")"
  THEN Parsed(nullptr, r.p)
  ELSE Parsed(r.expr, read_token(r.p))

\* parse_grouped_expression consuming a token without looking for the ")"
grouped_return_unchecked(r) == Parsed(r.expr, read_token(r.p))

parse_grouped_expression_unchecked(p) ==
  grouped_return_unchecked(parse_expression(LOWEST, read_token(p)))

parse_grouped_expression(p) == grouped_return(parse_expression(LOWEST, read_token(p)))

\* the switch of parse_infix_expression from Token::Op to AstNode::BinaryOp
BinaryOp(op) ==
  CASE op = "+" -> "Add"
    [] op = "-" -> "Sub"
    [] op = "*" -> "Prod"
    [] op = "/" -> "Div"
    [] op = "%" -> "Mod"

\* parse_infix_expression after the parse_expression of its right operand returned r
infix_return(op, left, r) == Parsed(AstNode_expression(op, left, r.expr), r.p)

\* parse_infix_expression parsing its right operand at LOWEST precedence
parse_infix_expression_lowest(left, p) ==
  IF p.cur.op \in {"+", "-", "*", "/", "%"}
  THEN infix_return(BinaryOp(p.cur.op), left, parse_expression(LOWEST, read_token(p)))
  ELSE Parsed(nullptr, p)

parse_infix_expression(left, p) ==
  IF p.cur.op \in {"+", "-", "*", "/", "%"}
  THEN infix_return(BinaryOp(p.cur.op), left,
                    parse_expression(cur_precedence(p), read_token(p)))
  ELSE Parsed(nullptr, p)

\* the while loop of parse_expression: its condition,
parse_expression_loop(prec, left, p) ==
  IF not_eof(p.next) /\ prec < next_precedence(p)
  THEN parse_expression_loop_body(prec, left, read_token(p))
  ELSE Parsed(left, p)

\* its body after read_token,
parse_expression_loop_body(prec, left, p) ==
  IF p.cur.op \in {"+", "-", "*", "/", "%"}
  THEN parse_expression_loop_again(prec, parse_infix_expression(left, p))
  ELSE Parsed(nullptr, p)

\* and the next iteration, with the left operand r just parsed
parse_expression_loop_again(prec, r) == parse_expression_loop(prec, r.expr, r.p)

\* the switch of parse_expression on the current token
parse_expression_switch(prec, p) ==
  IF p.cur.type = "Oper"
  THEN IF p.cur.op \in {"+", "-"}
       THEN parse_expression_loop_again(prec, parse_prefix_expression(p))
       ELSE IF p.cur.op = "("
            THEN parse_expression_loop_again(prec, parse_grouped_expression(p))
       ELSE Parsed(nullptr, p)
  ELSE IF p.cur.type = "Ident" THEN parse_expression_loop(prec, parse_identifier(p), p)
  ELSE IF p.cur.type = "Num" THEN parse_expression_loop(prec, parse_integer_literal(p), p)
  ELSE Parsed(nullptr, p)

parse_expression(prec, p) ==
  parse_expression_switch(prec,
    [p EXCEPT !.trace = Append(@, [ev |-> "parse_expression", reads |-> p.reads])])

(* parse_statment.  `auto ident = this->cur.ident` copies the string member  *)
(* of the token union whatever the token is; when cur is not an Ident that   *)
(* member was never constructed and the read is undefined: garbage stands    *)
(* for the bytes such a read yields when it does not fault.                  *)
assignment_return(ident, r, f) ==
  [stmt |-> Statement_assignment(ident, r.expr), p |-> r.p, fault |-> f]
expression_return(r) ==
  [stmt |-> Statement_expression(r.expr), p |-> r.p, fault |-> "none"]

parse_statment(p, garbage) ==
  IF p.next.type = "Assign"
  THEN assignment_return(IF p.cur.type = "Ident" THEN p.cur.ident ELSE garbage,
                         parse_expression(LOWEST, read_token(read_token(p))),
                         IF p.cur.type = "Ident" THEN "none" ELSE "inactive_member")
  ELSE expression_return(parse_expression(LOWEST, p))

(***************************************************************************)
(* Evaluator.  The Context is a function from identifiers to int.           *)
(*                                                                          *)
(* Three steps of the evaluator are undefined in C++: dereferencing a null  *)
(* AstNode pointer, / or % by zero, and signed overflow.  An evaluation     *)
(* takes a build b: b.trap says whether such a step stops the process       *)
(* (SIGSEGV, SIGFPE) or yields a value and goes on, b.garbage is the value  *)
(* it then yields, and b.ltr is the order in which the two operands of a    *)
(* binary operator are evaluated, which C++ leaves unspecified.             *)
(***************************************************************************)
INT_MAX == 2147483647
INT_MIN == -INT_MAX - 1

Abs(a) == IF a < 0 THEN -a ELSE a

\* int / int: the quotient truncated toward zero
NativeDiv(a, b) ==
  IF (a < 0) = (b < 0) THEN Abs(a) \div Abs(b) ELSE -(Abs(a) \div Abs(b))

\* int % int: the remainder takes the sign of the dividend
NativeMod(a, b) == a - b * NativeDiv(a, b)

EmptyContext == <<>>
set_var(c, ident, value) ==
  [k \in DOMAIN c \cup {ident} |-> IF k = ident THEN value ELSE c[k]]
clear_vars(c) == EmptyContext

\* Context::operator[]: the entry of ident, inserted with value 0 if absent
ctx_subscript(c, ident) == IF ident \in DOMAIN c THEN c ELSE set_var(c, ident, 0)

\* results of an evaluation step; evals counts the eval_expression calls made
Ok(value, c) == [value |-> value, ctx |-> c, fault |-> "none", evals |-> 0]
Undefined(kind, c, b) == [value |-> b.garbage, ctx |-> c, fault |-> kind, evals |-> 0]
Stopped(r, b) == r.fault # "none" /\ b.trap
FirstFault(f1, f2) == IF f1 # "none" THEN f1 ELSE f2

\* an int result of native arithmetic: undefined when it does not fit an int
IntResult(v, c, b) ==
  IF v < INT_MIN \/ v > INT_MAX THEN Undefined("overflow", c, b) ELSE Ok(v, c)

RECURSIVE eval_expression(_, _, _)

eval_literal(node, c, b) == Ok(node.num, c)

\* eval_identifier looking the name up without inserting it
eval_identifier_find(node, c, b) ==
  Ok(IF node.ident \in DOMAIN c THEN c[node.ident] ELSE 0, c)

eval_identifier(node, c, b) ==
  LET c1 == ctx_subscript(c, node.ident) IN Ok(c1[node.ident], c1)

eval_negative(node, c, b) ==
  LET r == eval_expression(node.child, c, b) IN
  IF Stopped(r, b) THEN r
  ELSE LET v == IntResult(-r.value, r.ctx, b)
       IN  [v EXCEPT !.fault = FirstFault(r.fault, @), !.evals = r.evals]

eval_binary(node, c, b) ==
  LET r1 == eval_expression(IF b.ltr THEN node.left ELSE node.right, c, b) IN
  IF Stopped(r1, b) THEN r1
  ELSE
  LET r2 == eval_expression(IF b.ltr THEN node.right ELSE node.left, r1.ctx, b) IN
  IF Stopped(r2, b)
  THEN [r2 EXCEPT !.evals = r1.evals + r2.evals]
  ELSE
  LET l == IF b.ltr THEN r1.value ELSE r2.value
      r == IF b.ltr THEN r2.value ELSE r1.value
      v == CASE node.op = "Add" -> IntResult(l + r, r2.ctx, b)
             [] node.op = "Sub" -> IntResult(l - r, r2.ctx, b)
             [] node.op = "Prod" -> IntResult(l * r, r2.ctx, b)
             [] node.op = "Div" -> IF r = 0 THEN Undefined("div_zero", r2.ctx, b)
                                   ELSE IntResult(NativeDiv(l, r), r2.ctx, b)
             [] node.op = "Mod" -> IF r = 0 THEN Undefined("div_zero", r2.ctx, b)
                                   ELSE IF l = INT_MIN /\ r = -1
                                        THEN Undefined("overflow", r2.ctx, b)
                                        ELSE IntResult(NativeMod(l, r), r2.ctx, b)
  IN  [v EXCEPT !.fault = FirstFault(FirstFault(r1.fault, r2.fault), @),
                !.evals = r1.evals + r2.evals]

eval_expression(node, c, b) ==
  LET r == CASE node.type = "nullptr" -> Undefined("null_deref", c, b)
             [] node.type = "BinaryExpression" -> eval_binary(node, c, b)
             [] node.type = "Identifier" -> eval_identifier(node, c, b)
             [] node.type = "Literal" -> eval_literal(node, c, b)
             [] node.type = "NegativeExpression" -> eval_negative(node, c, b)
  IN  [r EXCEPT !.evals = @ + 1]

\* eval_statment returning the value of an Assignment without storing it
eval_statment_nostore(s, c, b) ==
  IF s.type = "Assignment" THEN eval_expression(s.rhs, c, b)
  ELSE eval_expression(s.expr, c, b)

eval_statment(s, c, b) ==
  IF s.type = "Assignment"
  THEN LET r == eval_expression(s.rhs, c, b) IN
       IF Stopped(r, b) THEN r
       ELSE [r EXCEPT !.ctx = set_var(r.ctx, s.lhs, r.value)]
  ELSE eval_expression(s.expr, c, b)

(***************************************************************************)
(* Input lines.                                                             *)
(***************************************************************************)
\* the lines of at most n characters over chars
Strings(chars, n) == UNION {[1..k -> chars] : k \in 0..n}

\* the stand-alone lexer reads every line over these characters
LexChars == {"1", "x", " ", "+", "=", "#", NUL}
LexLines == Strings(LexChars, MaxLexLen)

\* a fresh Repl is given every line over these characters
FuzzChars == {"1", "x", "+", "*", "(", ")", "=", " "}
FuzzLines == Strings(FuzzChars, MaxFuzzLen)

\* and every line  operand (op operand)*  whose operands are a number with
\* an optional unary minus or opening parenthesis before it and an optional
\* closing parenthesis after it (balanced or not)
ArithPrefixes == {<<>>, <<"-">>, <<"(">>}
ArithNumbers == {<<"2">>}
ArithSuffixes == {<<>>, <<")">>}
ArithOps == {<<"+">>, <<"-">>, <<"*">>, <<"/">>, <<"%">>}
ArithOperands ==
  {a \o n \o z : a \in ArithPrefixes, n \in ArithNumbers, z \in ArithSuffixes}

RECURSIVE ArithLinesOf(_)
ArithLinesOf(n) ==
  IF n = 1 THEN ArithOperands
  ELSE {l \o op \o o : l \in ArithLinesOf(n - 1), op \in ArithOps, o \in ArithOperands}

RECURSIVE ArithLinesUpTo(_)
ArithLinesUpTo(n) ==
  IF n = 1 THEN ArithLinesOf(1) ELSE ArithLinesUpTo(n - 1) \cup ArithLinesOf(n)

ArithLines == ArithLinesUpTo(MaxOperands)

FirstLines == FuzzLines \cup ArithLines

\* a session is given statements  [name =] [operand [op operand]]
SessionTargets == {<<>>, <<"x", "=">>, <<"y", "=">>}
SessionOperands == {<<>>, <<"0">>, <<"1">>, <<"x">>, <<"y">>}
SessionLines ==
  {t \o a : t \in SessionTargets, a \in SessionOperands}
  \cup {t \o a \o op \o c : t \in SessionTargets, a \in SessionOperands,
                            op \in ArithOps, c \in SessionOperands}

\* what an undefined step may yield when it does not stop the process
GarbageValues == {0, 1}
GarbageIdents == {<<"x">>, <<"?">>}
Builds == [ltr : BOOLEAN, trap : BOOLEAN, garbage : GarbageValues]

(***************************************************************************)
(* Repl::loop, one action per branch of the loop body; the statement branch *)
(* is split after parse_statment so that the Statement handed to            *)
(* eval_statment is a state of its own.                                     *)
(***************************************************************************)
NoStatement == [type |-> "none"]
NoToken == [type |-> "none"]
Welcome == [kind |-> "welcome"]
LexerVars == <<lexer, tok, ntok>>

Init ==
  /\ phase = "prompt"
  /\ line = <<>>
  /\ stmt = NoStatement
  /\ parser = Parser(<<>>)
  /\ ctx = EmptyContext
  /\ out = Welcome
  /\ fault = "none"
  /\ lexer = Lexer(<<>>)
  /\ tok = NoToken
  /\ ntok = 0

\* the builds of the undefined read parse_statment makes of this line: what
\* the read yields and whether it stops the process; one build when the line
\* makes no such read
ParserBuilds(p) ==
  IF p.next.type = "Assign" /\ p.cur.type # "Ident"
  THEN [trap : BOOLEAN, garbage : GarbageIdents]
  ELSE {[trap |-> FALSE, garbage |-> <<>>]}

\* what parse_statment's result r leaves in the Repl, in build b
Parsing(r, b) ==
  /\ fault' = r.fault
  /\ IF r.fault # "none" /\ b.trap
     THEN phase' = "crashed" /\ UNCHANGED <<stmt, parser>>
     ELSE phase' = "parsed" /\ stmt' = r.stmt /\ parser' = r.p

\* string line; getline(cin, line); auto parser = Parser(line);
\* auto stmt = parser.parse_statment();
ReadStatement(lines) ==
  /\ phase = "prompt"
  /\ \E l \in lines : \E b \in ParserBuilds(Parser(l)) :
       /\ line' = l
       /\ Parsing(parse_statment(Parser(l), b.garbage), b)
  /\ UNCHANGED <<ctx, out, LexerVars>>

\* auto value = this->evaluator.eval_statment(stmt); cout << RESULT << value
Evaluate ==
  /\ phase = "parsed"
  /\ \E b \in Builds :
       LET r == eval_statment(stmt, ctx, b) IN
       /\ ctx' = r.ctx
       /\ fault' = FirstFault(fault, r.fault)
       /\ IF Stopped(r, b)
          THEN phase' = "crashed" /\ UNCHANGED out
          ELSE phase' = "printed" /\ out' = [kind |-> "result", value |-> r.value]
  /\ UNCHANGED <<line, stmt, parser, LexerVars>>

\* the closing brace of the loop body: stmt, parser and line go out of scope
EndIteration ==
  /\ phase = "printed"
  /\ phase' = "prompt"
  /\ line' = <<>>
  /\ stmt' = NoStatement
  /\ parser' = Parser(<<>>)
  /\ fault' = "none"
  /\ UNCHANGED <<ctx, out, LexerVars>>

\* line == "clear"
Clear ==
  /\ phase = "prompt"
  /\ ctx' = clear_vars(ctx)
  /\ UNCHANGED <<phase, line, stmt, parser, out, fault, LexerVars>>

\* line == "vars"
Vars ==
  /\ phase = "prompt"
  /\ out' = [kind |-> "vars", vars |-> ctx]
  /\ UNCHANGED <<phase, line, stmt, parser, ctx, fault, LexerVars>>

\* line == "exit"
Exit ==
  /\ phase = "prompt"
  /\ phase' = "exited"
  /\ out' = [kind |-> "goodbye"]
  /\ UNCHANGED <<line, stmt, parser, ctx, fault, LexerVars>>

\* a session keeps to statements whose values stay within MaxValue
WithinMaxValue ==
  /\ \A k \in DOMAIN ctx : Abs(ctx[k]) <= MaxValue
  /\ out.kind = "result" => Abs(out.value) <= MaxValue

Session == ReadStatement(SessionLines)
SessionEvaluate == Evaluate /\ WithinMaxValue'
Next == Session \/ SessionEvaluate \/ EndIteration \/ Clear \/ Vars \/ Exit
Spec == Init /\ [][Next]_vars

\* the first line given to a fresh Repl
First == out = Welcome /\ ReadStatement(FirstLines)
NextFirst == First \/ Evaluate \/ EndIteration
SpecFirst == Init /\ [][NextFirst]_vars

(***************************************************************************)
(* A Lexer on its own: constructed on a line, then next_token is called     *)
(* again and again, also after it has returned Eof.                         *)
(***************************************************************************)
InitLexer ==
  /\ phase = "prompt"
  /\ line \in LexLines
  /\ stmt = NoStatement
  /\ parser = Parser(<<>>)
  /\ ctx = EmptyContext
  /\ out = Welcome
  /\ fault = "none"
  /\ lexer = Lexer(line)
  /\ tok = NoToken
  /\ ntok = 0

NextToken ==
  /\ ntok < Len(line) + MaxExtraCalls
  /\ LET r == next_token(lexer) IN lexer' = r.lexer /\ tok' = r.tok
  /\ ntok' = ntok + 1
  /\ UNCHANGED <<phase, line, stmt, parser, ctx, out, fault>>

SpecLexer == InitLexer /\ [][NextToken]_vars

(***************************************************************************)
(* Vocabulary of the properties.                                            *)
(***************************************************************************)
\* the tokens of a line, up to the first Eof the lexer returns
RECURSIVE TokensFrom(_)
TokensFrom(l) ==
  LET r == next_token(l) IN
  IF r.tok.type = "Eof" THEN <<>> ELSE <<r.tok>> \o TokensFrom(r.lexer)

Tokens(input) == TokensFrom(Lexer(input))

Root(s) == IF s.type = "Assignment" THEN s.rhs ELSE s.expr

RECURSIVE HasNull(_)
HasNull(node) ==
  CASE node.type = "nullptr" -> TRUE
    [] node.type = "BinaryExpression" -> HasNull(node.left) \/ HasNull(node.right)
    [] node.type = "NegativeExpression" -> HasNull(node.child)
    [] OTHER -> FALSE

RECURSIVE Nodes(_)
Nodes(node) ==
  CASE node.type = "BinaryExpression" -> 1 + Nodes(node.left) + Nodes(node.right)
    [] node.type = "NegativeExpression" -> 1 + Nodes(node.child)
    [] OTHER -> 1

RECURSIVE Idents(_)
Idents(node) ==
  CASE node.type = "BinaryExpression" -> Idents(node.left) \cup Idents(node.right)
    [] node.type = "NegativeExpression" -> Idents(node.child)
    [] node.type = "Identifier" -> {node.ident}
    [] OTHER -> {}

(***************************************************************************)
(* The reference grammar, by recursive descent over the tokens of a line:   *)
(*    expr    ::= term  { ("+" | "-") term }                                *)
(*    term    ::= unary { ("*" | "/" | "%") unary }                         *)
(*    unary   ::= ("+" | "-") unary | primary                               *)
(*    primary ::= Num | "(" expr ")"                                        *)
(* Each Ref operator returns the tree it recognised from token i on and the *)
(* index of the first token after it, or ok = FALSE.                        *)
(***************************************************************************)
RefFail == [ok |-> FALSE]
IsOper(ts, i, ops) == i <= Len(ts) /\ ts[i].type = "Oper" /\ ts[i].op \in ops

RECURSIVE RefExpr(_, _)
RECURSIVE RefExprRest(_, _, _)
RECURSIVE RefTerm(_, _)
RECURSIVE RefTermRest(_, _, _)
RECURSIVE RefUnary(_, _)

RefPrimary(ts, i) ==
  IF i > Len(ts) THEN RefFail
  ELSE IF ts[i].type = "Num"
       THEN [ok |-> TRUE, tree |-> [type |-> "Literal", num |-> ts[i].num], next |-> i + 1]
  ELSE IF IsOper(ts, i, {"("})
       THEN LET r == RefExpr(ts, i + 1) IN
            IF r.ok /\ IsOper(ts, r.next, {")"})
            THEN [r EXCEPT !.next = @ + 1] ELSE RefFail
  ELSE RefFail

RefUnary(ts, i) ==
  IF IsOper(ts, i, {"+"}) THEN RefUnary(ts, i + 1)
  ELSE IF IsOper(ts, i, {"-"})
       THEN LET r == RefUnary(ts, i + 1) IN
            IF r.ok THEN [r EXCEPT !.tree = [type |-> "NegativeExpression", child |-> r.tree]]
            ELSE RefFail
  ELSE RefPrimary(ts, i)

RefOpName(op) ==
  CASE op = "+" -> "Add" [] op = "-" -> "Sub" [] op = "*" -> "Prod"
    [] op = "/" -> "Div" [] op = "%" -> "Mod"

RefTermRest(ts, left, i) ==
  IF IsOper(ts, i, {"*", "/", "%"})
  THEN LET r == RefUnary(ts, i + 1) IN
       IF r.ok
       THEN RefTermRest(ts, [type |-> "BinaryExpression", op |-> RefOpName(ts[i].op),
                             left |-> left, right |-> r.tree], r.next)
       ELSE RefFail
  ELSE [ok |-> TRUE, tree |-> left, next |-> i]

RefTerm(ts, i) ==
  LET r == RefUnary(ts, i) IN IF r.ok THEN RefTermRest(ts, r.tree, r.next) ELSE RefFail

RefExprRest(ts, left, i) ==
  IF IsOper(ts, i, {"+", "-"})
  THEN LET r == RefTerm(ts, i + 1) IN
       IF r.ok
       THEN RefExprRest(ts, [type |-> "BinaryExpression", op |-> RefOpName(ts[i].op),
                             left |-> left, right |-> r.tree], r.next)
       ELSE RefFail
  ELSE [ok |-> TRUE, tree |-> left, next |-> i]

RefExpr(ts, i) ==
  LET r == RefTerm(ts, i) IN IF r.ok THEN RefExprRest(ts, r.tree, r.next) ELSE RefFail

ArithChars == OperChars \cup {" "} \cup {Digits[i] : i \in 1..Len(Digits)}

\* the line is, as a whole, an expression of the reference grammar
RefValid(input) ==
  /\ \A i \in 1..Len(input) : input[i] \in ArithChars
  /\ LET r == RefExpr(Tokens(input), 1) IN r.ok /\ r.next = Len(Tokens(input)) + 1

RefTree(input) == RefExpr(Tokens(input), 1).tree

\* the quotient truncated toward zero and its remainder, by their definition
RefQuot(a, b) ==
  CHOOSE q \in -Abs(a)..Abs(a) :
    /\ Abs(q * b) <= Abs(a)
    /\ Abs(a) - Abs(q * b) < Abs(b)
    /\ q # 0 => ((q > 0) = ((a > 0) = (b > 0)))
RefRem(a, b) == a - b * RefQuot(a, b)

\* the value of a tree in an environment where an absent name reads as 0;
\* def is FALSE when a division or remainder by zero makes it undefined
RECURSIVE RefEval(_, _)
RefEval(t, env) ==
  CASE t.type = "Literal" -> [def |-> TRUE, v |-> t.num]
    [] t.type = "Identifier" ->
         [def |-> TRUE, v |-> IF t.ident \in DOMAIN env THEN env[t.ident] ELSE 0]
    [] t.type = "NegativeExpression" ->
         LET c == RefEval(t.child, env) IN
         IF c.def THEN [def |-> TRUE, v |-> 0 - c.v] ELSE [def |-> FALSE]
    [] t.type = "BinaryExpression" ->
         LET l == RefEval(t.left, env)
             r == RefEval(t.right, env)
         IN  IF ~l.def \/ ~r.def THEN [def |-> FALSE]
             ELSE IF t.op \in {"Div", "Mod"} /\ r.v = 0 THEN [def |-> FALSE]
             ELSE [def |-> TRUE,
                   v |-> CASE t.op = "Add" -> l.v + r.v
                           [] t.op = "Sub" -> l.v - r.v
                           [] t.op = "Prod" -> l.v * r.v
                           [] t.op = "Div" -> RefQuot(l.v, r.v)
                           [] t.op = "Mod" -> RefRem(l.v, r.v)]
    [] OTHER -> [def |-> FALSE]

(***************************************************************************)
(* C1.  For every line that is an expression of the reference grammar over  *)
(* numbers, + - * / %, unary + and - and parentheses, and whose value the   *)
(* grammar defines, parse_statment followed by eval_statment prints that    *)
(* value: unary prefix binds tighter than * / %, these bind tighter than    *)
(* + -, and the binary operators associate to the left.  The tree parsed is *)
(* the tree of the reference grammar, and no undefined step is taken.       *)
(***************************************************************************)
C1_ReferenceValue ==
  (phase = "printed" /\ RefValid(line) /\ RefEval(RefTree(line), EmptyContext).def)
    => /\ stmt = Statement_expression(RefTree(line))
       /\ fault = "none"
       /\ out = [kind |-> "result", value |-> RefEval(RefTree(line), EmptyContext).v]

\* "(2+2)*2" has been parsed and evaluated to 8
C1_Witness ==
  /\ phase = "printed"
  /\ line = <<"(", "2", "+", "2", ")", "*", "2">>
  /\ out = [kind |-> "result", value |-> 8]

(***************************************************************************)
(* C2.  A division or remainder whose right operand evaluates to 0 is       *)
(* reported as DivisionByZero: no reachable state has performed the native  *)
(* / or % with a zero divisor.                                              *)
(***************************************************************************)
C2_NoNativeDivisionByZero == fault # "div_zero"

(***************************************************************************)
(* C3.  A malformed line is a ParseError: the Statement that Repl::loop is  *)
(* about to hand to eval_statment never has a null root, nor a              *)
(* BinaryExpression or NegativeExpression node with a null child.           *)
(***************************************************************************)
C3_NoNullTreeEvaluated == phase = "parsed" => ~HasNull(Root(stmt))

(***************************************************************************)
(* C4.  A statement that fails (its tree has a null node, or its evaluation *)
(* divides by zero) leaves the Context as it was before the statement.      *)
(***************************************************************************)
C4_FailureLeavesContext ==
  [][(phase = "parsed" /\ fault' \in {"null_deref", "div_zero"}) => ctx' = ctx]_vars

(***************************************************************************)
(* C5.  A line with tokens left over after one statement is a ParseError:   *)
(* parse_statment never returns a Statement while its lookahead token is    *)
(* not Eof.                                                                 *)
(***************************************************************************)
C5_TrailingTokensRejected == phase = "parsed" => parser.next.type = "Eof"

(***************************************************************************)
(* C6.  Evaluating Identifier(name) never fails; when name is absent from   *)
(* the Context it yields 0 and leaves name mapped to 0, when name is        *)
(* present it yields the stored value and leaves the Context unchanged.     *)
(* More generally an expression statement that evaluates without fault      *)
(* adds exactly the absent names it reads, each mapped to 0, and changes    *)
(* no other entry.                                                          *)
(***************************************************************************)
C6_IdentifierRead ==
  [][(phase = "parsed" /\ stmt.type = "Expression") =>
       /\ stmt.expr.type = "Identifier" =>
            LET n == stmt.expr.ident IN
            /\ phase' = "printed" /\ fault' = "none"
            /\ IF n \in DOMAIN ctx
               THEN out' = [kind |-> "result", value |-> ctx[n]] /\ ctx' = ctx
               ELSE /\ out' = [kind |-> "result", value |-> 0]
                    /\ DOMAIN ctx' = DOMAIN ctx \cup {n}
                    /\ ctx'[n] = 0
       /\ (phase' = "printed" /\ fault' = "none") =>
            /\ DOMAIN ctx' = DOMAIN ctx \cup Idents(stmt.expr)
            /\ \A k \in DOMAIN ctx' : ctx'[k] = IF k \in DOMAIN ctx THEN ctx[k] ELSE 0
    ]_vars

\* "y+1" has been evaluated to 1 in a Context that now maps y to 0, x to 1
C6_Witness ==
  /\ phase = "printed"
  /\ line = <<"y", "+", "1">>
  /\ out = [kind |-> "result", value |-> 1]
  /\ DOMAIN ctx = {<<"x">>, <<"y">>} /\ ctx[<<"y">>] = 0 /\ ctx[<<"x">>] = 1

(***************************************************************************)
(* C7.  In a session, an Assignment that evaluates without fault prints the *)
(* value of its expression in the Context before the store and maps its     *)
(* name to that value; the value of a name changes only by an Assignment to *)
(* that name, a name leaves the Context only by clear, and clear leaves the *)
(* Context empty.                                                           *)
(***************************************************************************)
C7_AssignmentPersists ==
  [][/\ (phase = "parsed" /\ stmt.type = "Assignment" /\ phase' = "printed" /\ fault' = "none") =>
          /\ out' = [kind |-> "result", value |-> RefEval(stmt.rhs, ctx).v]
          /\ stmt.lhs \in DOMAIN ctx' /\ ctx'[stmt.lhs] = out'.value
     /\ \A n \in DOMAIN ctx :
          /\ n \notin DOMAIN ctx' => (phase = "prompt" /\ ctx' = EmptyContext)
          /\ (n \in DOMAIN ctx' /\ ctx'[n] # ctx[n]) =>
               (phase = "parsed" /\ stmt.type = "Assignment" /\ stmt.lhs = n)
     /\ Clear => ctx' = EmptyContext
    ]_vars

\* "x=x+1" has been evaluated with x = 1: it printed 2 and x is now 2
C7_Witness ==
  /\ phase = "printed"
  /\ line = <<"x", "=", "x", "+", "1">>
  /\ out = [kind |-> "result", value |-> 2]
  /\ ctx[<<"x">>] = 2

(***************************************************************************)
(* C8.  Once next_token has returned Eof, at the end of the input or at an  *)
(* unrecognized character, every later call returns Eof and leaves the      *)
(* lexer where it was: no token after an unrecognized character is ever     *)
(* produced.                                                                *)
(***************************************************************************)
C8_EofIsSticky == [][tok.type = "Eof" => (tok'.type = "Eof" /\ lexer' = lexer)]_vars

\* Eof was returned twice at the unrecognized '#' of a line with more after it
C8_Witness ==
  /\ tok.type = "Eof"
  /\ ntok >= 3
  /\ lexer.ch = "#"
  /\ lexer.next < Len(line)

(***************************************************************************)
(* C9.  parse_statment returns an Assignment exactly when the first token   *)
(* of the line is an Identifier and the second is Assign, and its name is   *)
(* that identifier; no identifier name is read from a token that is not an  *)
(* Identifier.                                                              *)
(***************************************************************************)
C9_AssignmentOnlyFromIdentifier ==
  /\ fault # "inactive_member"
  /\ phase = "parsed" =>
       LET ts == Tokens(line)
           named == Len(ts) >= 2 /\ ts[1].type = "Ident" /\ ts[2].type = "Assign"
       IN  /\ (stmt.type = "Assignment") = named
           /\ named => stmt.lhs = ts[1].ident

(***************************************************************************)
(* C10.  Parsing a line terminates: read_token is never called once the     *)
(* current token is Eof, so the line's tokens bound the calls; the lexer    *)
(* position never decreases; every parse_expression call is entered with    *)
(* more tokens consumed than the call before it; and the evaluation of the  *)
(* tree makes at most one eval_expression call per node.                    *)
(***************************************************************************)
ReadEvents(t) == {i \in 1..Len(t) : t[i].ev = "read_token"}
CallEvents(t) == {i \in 1..Len(t) : t[i].ev = "parse_expression"}

C10_ParsingTerminates ==
  phase \in {"parsed", "printed"} =>
    LET t == parser.trace IN
    /\ \A i \in ReadEvents(t) : t[i].past # "Eof" /\ t[i].from <= t[i].to
    /\ \A i, j \in CallEvents(t) : i < j => t[i].reads < t[j].reads
    /\ parser.reads = Cardinality(ReadEvents(t))
    /\ parser.reads <= Len(Tokens(line))
    /\ Cardinality(CallEvents(t)) <= parser.reads + 1
    /\ parser.lexer.next <= Len(line) + 1
    /\ phase = "parsed" =>
         \A b \in Builds : eval_statment(stmt, ctx, b).evals <= Nodes(Root(stmt))

\* "(1+1)" has been parsed: four read_token calls, three parse_expression calls
C10_Witness ==
  /\ phase = "parsed"
  /\ line = <<"(", "1", "+", "1", ")">>
  /\ parser.reads = 4
  /\ Cardinality(CallEvents(parser.trace)) = 3

====
